---- MODULE Spec2Model ----
(***************************************************************************)
(* Model of src/feature_extraction.py: the CSV loader (load_csv,          *)
(* load_data) and the feature-extraction pipeline (create_subreddit_idx,  *)
(* extract_subreddits, extract_text, extract_features).                   *)
(*                                                                         *)
(* A DataFrame is a sequence of records (its rows, in row order).  A      *)
(* Python str is a sequence of one-character strings.  A missing cell     *)
(* (pandas NaN) is the value NaN in the author column and the one-element *)
(* sequence <<NaN>> in the body column.  A dict or pd.Series is a         *)
(* function whose DOMAIN is its key set.  A 1 x N sparse row is the       *)
(* function [0..N-1 -> Nat] of its entries.                               *)
(***************************************************************************)
EXTENDS Integers, Sequences, FiniteSets, TLC

VARIABLES
    args,            \* load_data's parameters: the two file names
    files_read,      \* the file names handed to pd.read_csv, in order
    train_data,      \* the post DataFrame
    target,          \* the label DataFrame
    pc,              \* the source line about to run, or "loaded"/"done"/"failed"
    err,             \* the exception that ended the run, "" if none
    subreddit_idx,   \* line 72
    subreddits_dict, \* lines 74-76
    text_dict,       \* lines 78-80
    X,               \* lines 84-86: the stacked rows
    author_text,     \* line 87
    y                \* line 88

vars == <<args, files_read, train_data, target, pc, err, subreddit_idx,
          subreddits_dict, text_dict, X, author_text, y>>

-----------------------------------------------------------------------------
(* Bounds and input alphabets *)

MaxPosts == 3
MaxAggPosts == 3
MaxLabels == 2

NaN == "NaN"
NaNBody == <<NaN>>

Authors == {"a1", "a2", NaN}
Subreddits == {"s1", "s2"}
Genders == {"F", "M"}
Bodies == {<<"h", "i">>, <<" ">>, NaNBody}

PostRecords == [author : Authors, subreddit : Subreddits, body : Bodies]
LabelRecords == [author : Authors, gender : Genders]

\* The posts of the pipeline runs: each author writes one fixed body per
\* community, so that the label table can vary freely beside them.
PipelinePostRecords ==
    { r \in PostRecords :
        r.body = (IF r.author = "a1" /\ r.subreddit = "s1" THEN <<"h", "i">>
                  ELSE IF r.subreddit = "s2" THEN NaNBody
                  ELSE <<" ">>) }

SeqsUpTo(S, n) == UNION { [1..k -> S] : k \in 0..n }

Range(s) == { s[i] : i \in DOMAIN s }

-----------------------------------------------------------------------------
(* pandas / numpy / scipy primitives, as the code uses them *)

\* data[col]: one column of a frame, in row order
Column(data, col) == [i \in DOMAIN data |-> data[i][col]]

\* Series.unique(): the distinct values in order of first appearance
RECURSIVE unique(_)
unique(vals) ==
    IF vals = <<>> THEN <<>>
    ELSE LET front == unique(SubSeq(vals, 1, Len(vals) - 1))
             last == vals[Len(vals)]
         IN IF last \in Range(front) THEN front ELSE Append(front, last)

arange_from1(n) == [k \in 1..n |-> k]

\* np.arange(n): 0, 1, ..., n-1
arange(n) == [k \in 1..n |-> k - 1]

\* pd.Series(index=index, data=data): label index[k] maps to data[k]
Series(index, data) ==
    [c \in Range(index) |-> data[CHOOSE k \in DOMAIN index : index[k] = c]]

\* len() of a Series or dict
len(d) == Cardinality(DOMAIN d)

\* train_data.groupby("author"): the group keys (dropna=True drops the
\* rows whose key is missing) and each group's rows in original row order
GroupKeys(data) == Range(Column(data, "author")) \ {NaN}

RECURSIVE Group(_, _)
Group(data, author) ==
    IF data = <<>> THEN <<>>
    ELSE IF Head(data).author = author
         THEN <<Head(data)>> \o Group(Tail(data), author)
         ELSE Group(Tail(data), author)

-----------------------------------------------------------------------------
(* create_subreddit_idx, lines 30-35 *)

create_subreddit_idx(data) ==
    LET subreddits == unique(Column(data, "subreddit"))
    IN Series(subreddits, arange(Len(subreddits)))

-----------------------------------------------------------------------------
(* extract_subreddits, lines 38-56 *)

\* sparse.dok_array((1, n)): an empty dictionary of keys
dok_array(n) == [shape |-> n, items |-> <<>>]

setitem_add(v, idx) ==
    [v EXCEPT !.items = (idx :> (IF idx \in DOMAIN v.items THEN v.items[idx] + 1 ELSE 1))
                        @@ v.items]

\* v[0, idx] = 1
setitem(v, idx) == [v EXCEPT !.items = (idx :> 1) @@ v.items]

\* for idx in idxs: v[0, idx] = 1
RECURSIVE SetAll(_, _)
SetAll(v, idxs) ==
    IF idxs = <<>> THEN v ELSE SetAll(setitem(v, Head(idxs)), Tail(idxs))

\* v.tocsr(): the row of length shape with the stored entries, 0 elsewhere
tocsr(v) ==
    [j \in 0..(v.shape - 1) |-> IF j \in DOMAIN v.items THEN v.items[j] ELSE 0]

extract_subreddits(author_data, idx) ==
    LET user_subreddits == Column(author_data, "subreddit")
        idxs == [k \in DOMAIN user_subreddits |-> idx[user_subreddits[k]]]
    IN tocsr(SetAll(dok_array(len(idx)), idxs))

-----------------------------------------------------------------------------
(* extract_text, lines 59-64 *)

\* astype(str) of one cell: a missing cell becomes the text "nan"
astype_str(cell) == IF cell = NaNBody THEN <<"n", "a", "n">> ELSE cell

\* sep.join(strs)
RECURSIVE join(_, _)
join(sep, strs) ==
    IF strs = <<>> THEN <<>>
    ELSE IF Len(strs) = 1 THEN strs[1]
    ELSE strs[1] \o sep \o join(sep, Tail(strs))

group_text_dropna(author_data) ==
    LET bodies == SelectSeq(Column(author_data, "body"), LAMBDA c : c # NaNBody)
    IN [k \in DOMAIN bodies |-> astype_str(bodies[k])]

\* author_data["body"].astype(str).values
group_text(author_data) ==
    LET bodies == Column(author_data, "body")
    IN [k \in DOMAIN bodies |-> astype_str(bodies[k])]

extract_text(author_data) == join(<<" ">>, group_text(author_data))

-----------------------------------------------------------------------------
(* load_csv and load_data, lines 8-27 *)

Csv == <<"c", "s", "v">>

\* filename.split(".")
RECURSIVE split(_, _)
split(s, sep) ==
    IF \A i \in DOMAIN s : s[i] # sep THEN <<s>>
    ELSE LET i == CHOOSE k \in DOMAIN s :
                      s[k] = sep /\ \A m \in 1..(k - 1) : s[m] # sep
         IN <<SubSeq(s, 1, i - 1)>> \o split(SubSeq(s, i + 1, Len(s)), sep)

\* filename.split(".")[-1]
ext(filename) == LET parts == split(filename, ".") IN parts[Len(parts)]

\* line 13: the file names load_csv lets through to pd.read_csv
load_csv_accepts(filename) == ext(filename) = Csv

FileNames ==
    { <<"d", ".", "c", "s", "v">>,
      <<"d", ".", "t", ".", "c", "s", "v">>,
      <<".", "c", "s", "v">>,
      <<"c", "s", "v">>,
      <<"d", "c", "s", "v">>,
      <<"d", ".", "t", "x", "t">>,
      <<"d", ".", "c", "s", "v", ".", "t">>,
      <<"d", ".", "C", "S", "V">>,
      <<"d", ".">>,
      <<"d">>,
      <<>> }

\* what pd.read_csv may find on disk
DiskPosts == SeqsUpTo(PipelinePostRecords, 1)
DiskLabels == SeqsUpTo(LabelRecords, 1)
ReadOutcomes == {"ok", "FileNotFoundError"}

-----------------------------------------------------------------------------
(* extract_features, lines 67-90 *)

lookup_skip_missing(d, keys) ==
    LET found == SelectSeq(keys, LAMBDA k : k \in DOMAIN d)
    IN [err |-> "", val |-> [i \in DOMAIN found |-> d[found[i]]]]

\* [d[author] for author in keys]: the first missing key raises KeyError
lookup(d, keys) ==
    IF \E i \in DOMAIN keys : keys[i] \notin DOMAIN d
    THEN [err |-> "KeyError", val |-> <<>>]
    ELSE [err |-> "", val |-> [i \in DOMAIN keys |-> d[keys[i]]]]

\* sparse.vstack(blocks): an empty block list raises ValueError
\* ("blocks must be 2-D"); otherwise the rows in the order given
vstack(blocks) ==
    IF blocks = <<>> THEN [err |-> "ValueError", val |-> <<>>]
    ELSE [err |-> "", val |-> blocks]

rows_reversed(d, tgt) ==
    LET r == lookup(d, Column(tgt, "author"))
    IN [r EXCEPT !.val = [i \in DOMAIN r.val |-> r.val[Len(r.val) + 1 - i]]]

\* line 85: [subreddits_dict[author] for author in target["author"]]
rows_of(d, tgt) == lookup(d, Column(tgt, "author"))

KeyRank(k) == IF k = "a1" THEN 1 ELSE IF k = "a2" THEN 2 ELSE 3

texts_in_key_order(d, tgt) ==
    LET keys == Column(tgt, "author")
        pos(i) == 1 + Cardinality({ j \in DOMAIN keys :
                        \/ KeyRank(keys[j]) < KeyRank(keys[i])
                        \/ KeyRank(keys[j]) = KeyRank(keys[i]) /\ j < i })
        sorted == [n \in DOMAIN keys |-> keys[CHOOSE i \in DOMAIN keys : pos(i) = n]]
    IN lookup(d, sorted)

\* line 87: [text_dict[author] for author in target["author"]]
texts_of(d, tgt) == lookup(d, Column(tgt, "author"))

\* line 88: target["gender"]
labels_of(tgt) == Column(tgt, "gender")

Fail(e) == pc' = "failed" /\ err' = e

\* line 72
CreateSubredditIdx ==
    /\ pc = "l72"
    /\ subreddit_idx' = create_subreddit_idx(train_data)
    /\ pc' = "l74"
    /\ UNCHANGED <<args, files_read, train_data, target, err, subreddits_dict,
                   text_dict, X, author_text, y>>

\* lines 74-76.  Every community of a group is a key of subreddit_idx,
\* which line 72 built from the same frame, so .loc cannot raise here.
BuildSubredditsDict ==
    /\ pc = "l74"
    /\ subreddits_dict' =
          [author \in GroupKeys(train_data) |->
              extract_subreddits(Group(train_data, author), subreddit_idx)]
    /\ pc' = "l78"
    /\ UNCHANGED <<args, files_read, train_data, target, err, subreddit_idx,
                   text_dict, X, author_text, y>>

\* lines 78-80
BuildTextDict ==
    /\ pc = "l78"
    /\ text_dict' =
          [author \in GroupKeys(train_data) |->
              extract_text(Group(train_data, author))]
    /\ pc' = "l84"
    /\ UNCHANGED <<args, files_read, train_data, target, err, subreddit_idx,
                   subreddits_dict, X, author_text, y>>

\* lines 84-86
StackX ==
    /\ pc = "l84"
    /\ LET rows == rows_of(subreddits_dict, target)
           stacked == vstack(rows.val)
       IN IF rows.err # "" THEN Fail(rows.err) /\ UNCHANGED X
          ELSE IF stacked.err # "" THEN Fail(stacked.err) /\ UNCHANGED X
          ELSE X' = stacked.val /\ pc' = "l87" /\ UNCHANGED err
    /\ UNCHANGED <<args, files_read, train_data, target, subreddit_idx,
                   subreddits_dict, text_dict, author_text, y>>

\* line 87
BuildAuthorText ==
    /\ pc = "l87"
    /\ LET texts == texts_of(text_dict, target)
       IN IF texts.err # "" THEN Fail(texts.err) /\ UNCHANGED author_text
          ELSE author_text' = texts.val /\ pc' = "l88" /\ UNCHANGED err
    /\ UNCHANGED <<args, files_read, train_data, target, subreddit_idx,
                   subreddits_dict, text_dict, X, y>>

\* lines 88-90
Return ==
    /\ pc = "l88"
    /\ y' = labels_of(target)
    /\ pc' = "done"
    /\ UNCHANGED <<args, files_read, train_data, target, err, subreddit_idx,
                   subreddits_dict, text_dict, X, author_text>>

\* line 25: train_data = load_csv(train_data)
LoadTrainData ==
    \E outcome \in ReadOutcomes, df \in DiskPosts :
        /\ pc = "l25"
        /\ IF ~load_csv_accepts(args.train_data)
           THEN Fail("ValueError") /\ UNCHANGED <<files_read, train_data>>
           ELSE /\ files_read' = Append(files_read, args.train_data)
                /\ IF outcome = "ok"
                   THEN train_data' = df /\ pc' = "l26" /\ UNCHANGED err
                   ELSE Fail(outcome) /\ UNCHANGED train_data
        /\ UNCHANGED <<args, target, subreddit_idx, subreddits_dict, text_dict,
                       X, author_text, y>>

\* line 26: target = load_csv(train_target)
LoadTarget ==
    \E outcome \in ReadOutcomes, df \in DiskLabels :
        /\ pc = "l26"
        /\ IF ~load_csv_accepts(args.train_target)
           THEN Fail("ValueError") /\ UNCHANGED <<files_read, target>>
           ELSE /\ files_read' = Append(files_read, args.train_target)
                /\ IF outcome = "ok"
                   THEN target' = df /\ pc' = "loaded" /\ UNCHANGED err
                   ELSE Fail(outcome) /\ UNCHANGED target
        /\ UNCHANGED <<args, train_data, subreddit_idx, subreddits_dict,
                       text_dict, X, author_text, y>>

-----------------------------------------------------------------------------
(* Specifications *)

NoArgs == [train_data |-> <<>>, train_target |-> <<>>]

Unset ==
    /\ err = ""
    /\ subreddit_idx = <<>>
    /\ subreddits_dict = <<>>
    /\ text_dict = <<>>
    /\ X = <<>>
    /\ author_text = <<>>
    /\ y = <<>>

\* extract_features called on a post frame and a label frame
Init ==
    /\ args = NoArgs
    /\ files_read = <<>>
    /\ train_data \in SeqsUpTo(PipelinePostRecords, MaxPosts)
    /\ target \in SeqsUpTo(LabelRecords, MaxLabels)
    /\ pc = "l72"
    /\ Unset

Next ==
    \/ CreateSubredditIdx
    \/ BuildSubredditsDict
    \/ BuildTextDict
    \/ StackX
    \/ BuildAuthorText
    \/ Return

Spec == Init /\ [][Next]_vars

\* the aggregation stage of extract_features (lines 72-80) on any post frame
InitAgg ==
    /\ args = NoArgs
    /\ files_read = <<>>
    /\ train_data \in SeqsUpTo(PostRecords, MaxAggPosts)
    /\ target = <<>>
    /\ pc = "l72"
    /\ Unset

NextAgg ==
    \/ CreateSubredditIdx
    \/ BuildSubredditsDict
    \/ BuildTextDict

SpecAgg == InitAgg /\ [][NextAgg]_vars

\* load_data called with any two file names
InitLoad ==
    /\ args \in [train_data : FileNames, train_target : FileNames]
    /\ files_read = <<>>
    /\ train_data = <<>>
    /\ target = <<>>
    /\ pc = "l25"
    /\ Unset

NextLoad ==
    \/ LoadTrainData
    \/ LoadTarget

SpecLoad == InitLoad /\ [][NextLoad]_vars

-----------------------------------------------------------------------------
(* Vocabulary of the properties *)

Terminal == pc \in {"done", "failed"}

\* every author value of the post frame, a missing one included
PostAuthors == { train_data[i].author : i \in DOMAIN train_data }

\* the distinct community values of the post frame
Communities == { train_data[i].subreddit : i \in DOMAIN train_data }

\* the row positions of an author's posts
PostsOf(author) == { i \in DOMAIN train_data : train_data[i].author = author }

Perms(n) == { p \in [1..n -> 1..n] : \A i, j \in 1..n : p[i] = p[j] => i = j }

Permuted(s, p) == [i \in DOMAIN s |-> s[p[i]]]

\* the membership vector an author should get: 1 exactly at the index of
\* each community the author posted in
Membership(author) ==
    [j \in 0..(Cardinality(Communities) - 1) |->
        IF \E i \in PostsOf(author) : subreddit_idx[train_data[i].subreddit] = j
        THEN 1 ELSE 0]

-----------------------------------------------------------------------------
(* C1 *)

\* C1: after a successful run the three outputs have one entry per label
\* record, and at every position i: X[i] is the membership vector of
\* target[i].author, author_text[i] is that same author's text, and y[i] is
\* the label of record i.
C1_RowsDescribeSameAuthor ==
    pc = "done" =>
        /\ Len(X) = Len(target)
        /\ Len(author_text) = Len(target)
        /\ Len(y) = Len(target)
        /\ \A i \in DOMAIN target :
              /\ X[i] = subreddits_dict[target[i].author]
              /\ X[i] = Membership(target[i].author)
              /\ author_text[i] = text_dict[target[i].author]
              /\ y[i] = target[i].gender

C1_Witness ==
    /\ pc = "done"
    /\ Len(target) = 2
    /\ target[1].author # target[2].author
    /\ target[1].gender # target[2].gender
    /\ X[1] # X[2]
    /\ author_text[1] # author_text[2]

-----------------------------------------------------------------------------
(* C2 *)

\* C2: whenever every author of the label table appears in the posts, the
\* run succeeds and X has exactly as many rows as the label table has
\* records, a label table of zero records included.
C2_RowCountEqualsLabelCount ==
    (Terminal /\ \A i \in DOMAIN target : target[i].author \in PostAuthors) =>
        /\ pc = "done"
        /\ Len(X) = Len(target)

-----------------------------------------------------------------------------
(* C3 *)

\* C3: the community index maps exactly the distinct communities of the
\* posts, one to one, onto 0..N-1 with N their number; for an empty post
\* frame it is the empty mapping.
C3_IndexIsDenseBijection ==
    pc # "l72" =>
        LET N == Cardinality(Communities)
        IN /\ DOMAIN subreddit_idx = Communities
           /\ \A c, d \in Communities :
                 subreddit_idx[c] = subreddit_idx[d] => c = d
           /\ { subreddit_idx[c] : c \in Communities } = 0..(N - 1)
           /\ len(subreddit_idx) = N
           /\ train_data = <<>> => subreddit_idx = <<>> /\ N = 0

C3_Witness ==
    /\ pc # "l72"
    /\ Len(train_data) = 3
    /\ train_data[1].subreddit = train_data[3].subreddit
    /\ train_data[1].subreddit # train_data[2].subreddit
    /\ subreddit_idx[train_data[1].subreddit] = 0
    /\ subreddit_idx[train_data[2].subreddit] = 1

-----------------------------------------------------------------------------
(* C4 *)

\* one post for each distinct community of a group: its first
OncePerCommunity(group) ==
    LET firsts == { i \in DOMAIN group :
                      \A m \in 1..(i - 1) : group[m].subreddit # group[i].subreddit }
        nth(n) == CHOOSE i \in firsts :
                      Cardinality({ m \in firsts : m < i }) = n - 1
    IN [n \in 1..Cardinality(firsts) |-> group[nth(n)]]

\* C4: every author's membership vector has length N, has 1 at the index of
\* each community the author posted in and 0 everywhere else (so no entry
\* exceeds 1), equals the vector of the same posts taken once per community,
\* and equals the vector of the same posts in any other order.
C4_MembershipIsIdempotentSet ==
    pc \in {"l78", "l84"} =>
        \A author \in DOMAIN subreddits_dict :
            LET v == subreddits_dict[author]
                group == Group(train_data, author)
            IN /\ DOMAIN v = 0..(Cardinality(Communities) - 1)
               /\ v = Membership(author)
               /\ \A j \in DOMAIN v : v[j] \in {0, 1}
               /\ extract_subreddits(OncePerCommunity(group), subreddit_idx) = v
               /\ \A p \in Perms(Len(group)) :
                     extract_subreddits(Permuted(group, p), subreddit_idx) = v

C4_Witness ==
    /\ pc = "l78"
    /\ Len(train_data) = 3
    /\ \E author \in DOMAIN subreddits_dict :
          /\ train_data[1].author = author
          /\ train_data[2].author = author
          /\ train_data[3].author # author
          /\ train_data[1].subreddit = train_data[2].subreddit
          /\ train_data[3].subreddit # train_data[1].subreddit
          /\ subreddits_dict[author] = (0 :> 1) @@ (1 :> 0)

-----------------------------------------------------------------------------
(* C5 *)

\* the text a post contributes: its body, or the placeholder "nan" when
\* the body is missing
Piece(i) ==
    IF train_data[i].body = NaNBody THEN <<"n", "a", "n">> ELSE train_data[i].body

\* where the piece of post i starts in its author's text: after the pieces
\* of the author's earlier posts and one separator for each
Offset(i) ==
    LET earlier == { m \in PostsOf(train_data[i].author) : m < i }
        RECURSIVE Total(_)
        Total(S) == IF S = {} THEN 0
                    ELSE LET m == CHOOSE x \in S : TRUE
                         IN Len(Piece(m)) + 1 + Total(S \ {m})
    IN Total(earlier)

\* C5: every author's text holds the pieces of all the author's posts in
\* dataset order, each at its place, with exactly one space between
\* consecutive pieces and nothing else: a missing body contributes the
\* placeholder, and nothing is trimmed.
C5_TextIsOrderedJoin ==
    pc = "l84" =>
        \A author \in DOMAIN text_dict :
            LET text == text_dict[author]
                posts == PostsOf(author)
                last == CHOOSE i \in posts : \A m \in posts : m <= i
            IN /\ Len(text) = Offset(last) + Len(Piece(last))
               /\ \A i \in posts :
                     /\ SubSeq(text, Offset(i) + 1, Offset(i) + Len(Piece(i))) = Piece(i)
                     /\ i # last => text[Offset(i) + Len(Piece(i)) + 1] = " "

C5_Witness ==
    /\ pc = "l84"
    /\ Len(train_data) = 3
    /\ train_data[1].author = "a1"
    /\ train_data[2].author = "a2"
    /\ train_data[3].author = "a1"
    /\ train_data[1].body = NaNBody
    /\ train_data[3].body = <<" ">>
    /\ text_dict["a1"] = <<"n", "a", "n", " ", " ">>

-----------------------------------------------------------------------------
(* C6 *)

\* some label record names an author without any post
SomeAuthorMissing == \E i \in DOMAIN target : target[i].author \notin PostAuthors

\* C6: when a label record names an author without any post, the run never
\* gets past the stacking step: it ends in KeyError there, and X,
\* author_text and y are never assigned.
C6_MissingAuthorFailsWithoutOutput ==
    SomeAuthorMissing =>
        /\ pc \in {"l72", "l74", "l78", "l84", "failed"}
        /\ pc = "failed" => err = "KeyError"
        /\ X = <<>>
        /\ author_text = <<>>
        /\ y = <<>>

C6_Witness ==
    /\ pc = "failed"
    /\ err = "KeyError"
    /\ Len(target) = 2
    /\ target[1].author \in DOMAIN subreddits_dict
    /\ target[2].author \notin PostAuthors
    /\ X = <<>>

-----------------------------------------------------------------------------
(* C7 *)

\* C7: with an empty post frame and an empty label frame the run completes
\* without error, the community index is empty, and X, author_text and y
\* are empty.
C7_EmptyInputsSucceed ==
    (Terminal /\ train_data = <<>> /\ target = <<>>) =>
        /\ pc = "done"
        /\ err = ""
        /\ len(subreddit_idx) = 0
        /\ X = <<>>
        /\ author_text = <<>>
        /\ y = <<>>

-----------------------------------------------------------------------------
(* C8 *)

\* C8: after a successful run, running the alignment step on any
\* permutation p of the label records succeeds too and gives X,
\* author_text and y each permuted by that same p.
C8_PermutingLabelsPermutesOutputs ==
    pc = "done" =>
        \A p \in Perms(Len(target)) :
            LET permuted == Permuted(target, p)
                rows == rows_of(subreddits_dict, permuted)
                stacked == vstack(rows.val)
                texts == texts_of(text_dict, permuted)
            IN /\ rows.err = ""
               /\ stacked.err = ""
               /\ texts.err = ""
               /\ stacked.val = Permuted(X, p)
               /\ texts.val = Permuted(author_text, p)
               /\ labels_of(permuted) = Permuted(y, p)

C8_Witness ==
    /\ pc = "done"
    /\ Len(target) >= 2
    /\ \E p \in Perms(Len(target)) :
          /\ Permuted(X, p) # X
          /\ Permuted(author_text, p) # author_text
          /\ Permuted(y, p) # y
          /\ texts_of(text_dict, Permuted(target, p)).val = Permuted(author_text, p)

-----------------------------------------------------------------------------
(* C9 *)

DotCsv == <<".", "c", "s", "v">>

\* the file name ends in ".csv"
HasCsvExtension(filename) ==
    /\ Len(filename) >= Len(DotCsv)
    /\ SubSeq(filename, Len(filename) - Len(DotCsv) + 1, Len(filename)) = DotCsv

\* C9: every file name handed to pd.read_csv has a .csv extension: a name
\* with any other extension, or with none, is rejected before it is read.
C9_OnlyCsvExtensionIsRead ==
    \A i \in DOMAIN files_read : HasCsvExtension(files_read[i])

-----------------------------------------------------------------------------
(* C10 *)

\* C10: after the aggregation loops both dictionaries have exactly the
\* author values of the post frame as their keys, whatever those values are.
C10_EveryPostAuthorHasEntries ==
    pc = "l84" =>
        /\ DOMAIN subreddits_dict = PostAuthors
        /\ DOMAIN text_dict = PostAuthors

====
